---- MODULE Spec2Model ----
(***************************************************************************)
(* Model of src/deep_research.py: the submit/poll orchestration of         *)
(* deep_research (credentials check, wave-1 submissions, the pooled        *)
(* wave-1 polls, derivation, the sequential wave-2 jobs) and of            *)
(* poll_result taken alone.                                                *)
(*                                                                         *)
(* Python values: a str or Optional[str] is a TLA+ string, "" standing for *)
(* both None and the empty string (the code only tests their truthiness);  *)
(* an Optional[Dict] payload is a record of fixed shape, NonePayload       *)
(* standing for None.                                                      *)
(***************************************************************************)
EXTENDS Integers, Sequences, FiniteSets, TLC

VARIABLES
    NYNE_API_KEY,     \* module global, line 57
    NYNE_API_SECRET,  \* module global, line 58
    input_data,       \* the ResearchInput handed to deep_research (mutated by phase 3)
    caller_input,     \* its value on entry (history variable)
    results,          \* the ResearchResults accumulator
    request_ids,      \* dict key -> request id; "" = key not in the dict
    pc,               \* position of the orchestrator thread inside deep_research
    polls,            \* per key: the poll_result call made for that key
    joined,           \* keys whose future the as_completed loop has consumed
    posts,            \* per key: number of POST (submission) calls issued
    writes,           \* per key: number of assignments to that slot of results
    sent,             \* per key: the POSTs issued, in order (history variable)
    call,             \* a poll_result call taken alone (PollSpec)
    log,              \* the responses that call has received, in order (PollSpec)
    llm,              \* generate_dossier's llm argument
    api_keys,         \* backends whose *_API_KEY global is set (lines 59-61)
    dossier_results,  \* the ResearchResults handed to generate_dossier
    gpc,              \* position of the main thread inside generate_dossier
    llm_name,         \* the backend _get_llm_caller chose; "" = None
    all_following,    \* line 788
    batches,          \* line 802
    futures,          \* per batch: the future of its analyze_batch task
    following_analyses, \* line 804
    completion_order, \* batch indices in the order as_completed yielded them (history)
    llm_calls,        \* the generation calls issued, in order (history)
    synthesis_prompt, \* the three sections of the synthesis prompt, line 854
    dossier           \* the value generate_dossier returns; "" = None

orch_vars == <<NYNE_API_KEY, NYNE_API_SECRET, input_data, caller_input, results,
               request_ids, pc, polls, joined, posts, writes, sent>>

dossier_vars == <<llm, api_keys, dossier_results, gpc, llm_name, all_following, batches,
                  futures, following_analyses, completion_order, llm_calls,
                  synthesis_prompt, dossier>>

vars == <<orch_vars, call, log, dossier_vars>>

\* ------------------------------------------------------------------ bounds

\* Stands for the default max_attempts (60) of poll_result as deep_research calls it.
DefaultMaxAttempts == 2

\* Largest max_attempts handed to poll_result when it is taken alone.
MaxCeiling == 3

\* ------------------------------------------------------------------ data

Keys == {"enrichment", "following_twitter", "following_instagram", "articles"}

endpoint_map ==
    [k \in Keys |->
        CASE k = "enrichment" -> "/person/enrichment"
          [] k = "following_twitter" -> "/person/interactions"
          [] k = "following_instagram" -> "/person/interactions"
          [] k = "articles" -> "/person/articlesearch"]

\* The `result` object of an enrichment payload, as far as phase 3 reads it.
\* shape / careers_info / social_profiles / twitter / instagram tell a missing
\* key ("absent"), a JSON null ("null") and a value of the expected type apart.
MkResult(shape, first, last, careers, career0, comp, social, tw, twurl, ig, igurl) ==
    [shape |-> shape, firstname |-> first, lastname |-> last,
     careers_info |-> careers, career0 |-> career0, company_name |-> comp,
     social_profiles |-> social, twitter |-> tw, twitter_url |-> twurl,
     instagram |-> ig, instagram_url |-> igurl]

AbsentResult ==
    MkResult("absent", "", "", "absent", "dict", "", "absent", "absent", "", "absent", "")

NullResult ==
    MkResult("null", "", "", "absent", "dict", "", "absent", "absent", "", "absent", "")

FullResult ==
    MkResult("dict", "Jane", "Doe", "list", "dict", "Acme", "dict",
             "dict", "https://x.com/jane", "dict", "https://instagram.com/jane")

NoSocialResult ==
    MkResult("dict", "Jane", "Doe", "list", "dict", "Acme", "null", "absent", "", "absent", "")

PartialResult ==
    MkResult("dict", "Jane", "", "empty", "dict", "", "dict",
             "dict", "https://x.com/jane", "absent", "")

NullTwitterResult ==
    MkResult("dict", "Jane", "Doe", "list", "dict", "Acme", "dict",
             "null", "", "dict", "https://instagram.com/jane")

\* The enrichment results the provider may answer with.
EnrichmentResults ==
    {AbsentResult, NullResult, FullResult, NoSocialResult, PartialResult, NullTwitterResult}

ResultsOf(key) == IF key = "enrichment" THEN EnrichmentResults ELSE {AbsentResult}

\* data["data"] of a completed status check for request rid.
Payload(rid, res) == [status |-> "completed", request_id |-> rid, result |-> res]

NonePayload == [status |-> "", request_id |-> "", result |-> AbsentResult]

\* Python truthiness of an Optional[Dict]: None and {} are falsy.
Truthy(payload) == payload # NonePayload

ResearchInput(email, linkedin, twitter, instagram, name, company) ==
    [email |-> email, linkedin_url |-> linkedin, twitter_url |-> twitter,
     instagram_url |-> instagram, name |-> name, company |-> company]

ResearchResults ==
    [enrichment |-> NonePayload, following_twitter |-> NonePayload,
     following_instagram |-> NonePayload, articles |-> NonePayload]

Inputs ==
    {ResearchInput(e, l, t, i, n, c) :
        e \in {"", "a@b.c"}, l \in {"", "https://linkedin.com/in/ann"},
        t \in {"", "https://x.com/ann"}, i \in {"", "https://instagram.com/ann"},
        n \in {"", "Ann Lee"}, c \in {"", "Initech"}}

\* ------------------------------------------------------------------ provider client

\* get_headers with `and` for `or`: one credential is enough.
get_headers_either(key, secret) ==
    IF key = "" /\ secret = "" THEN "" ELSE "headers"

get_headers(key, secret) ==
    IF key = "" \/ secret = "" THEN "" ELSE "headers"

\* The provider's answer to a POST: exc = requests.post or response.json()
\* raised; success = truthiness of data.get("success"); data_shape = the value
\* under "data"; request_id = data["data"].get("request_id"), "" if missing.
SubmitResponse(exc, success, shape, rid) ==
    [exc |-> exc, success |-> success, data_shape |-> shape, request_id |-> rid]

SubmitResponses(rid) ==
    { SubmitResponse(TRUE, FALSE, "absent", ""),
      SubmitResponse(FALSE, FALSE, "dict", rid),
      SubmitResponse(FALSE, TRUE, "absent", ""),
      SubmitResponse(FALSE, TRUE, "null", ""),
      SubmitResponse(FALSE, TRUE, "dict", ""),
      SubmitResponse(FALSE, TRUE, "dict", rid) }

\* parse_submission without the test of the success flag.
parse_submission_no_flag(resp) ==
    IF resp.exc THEN ""
    ELSE IF resp.data_shape = "null" THEN ""
    ELSE IF resp.data_shape = "absent" THEN ""
    ELSE resp.request_id

\* Lines 171-183 (and 196-212, 223-240): what a submit_* function returns once
\* it has issued its POST and got resp.
parse_submission(resp) ==
    IF resp.exc THEN ""
    ELSE IF ~resp.success THEN ""
    ELSE IF resp.data_shape = "null" THEN ""      \* None.get raises, caught
    ELSE IF resp.data_shape = "absent" THEN ""
    ELSE resp.request_id

\* Whether each submit_* function issues its POST at all for these arguments.
submit_enrichment_posts(inp) == TRUE

submit_following_posts(social_url) == social_url # ""

submit_article_search_posts(name, company) == name # "" /\ company # ""

\* The id the provider hands out for the n-th POST made for key k.
NewId(k, n) == k \o "#" \o ToString(n)

\* ------------------------------------------------------------------ job poller

\* The provider's answer to a status check.
PollResponse(exc, success, shape, status, payload) ==
    [exc |-> exc, success |-> success, data_shape |-> shape, status |-> status,
     data |-> payload]

PollResponses(key, rid) ==
    { PollResponse(TRUE, FALSE, "absent", "", NonePayload),
      PollResponse(FALSE, FALSE, "absent", "", NonePayload),
      PollResponse(FALSE, FALSE, "dict", "completed", Payload(rid, AbsentResult)),
      PollResponse(FALSE, TRUE, "absent", "", NonePayload),
      PollResponse(FALSE, TRUE, "null", "", NonePayload),
      PollResponse(FALSE, TRUE, "dict", "", NonePayload),
      PollResponse(FALSE, TRUE, "dict", "pending", NonePayload),
      PollResponse(FALSE, TRUE, "dict", "failed", NonePayload) }
    \cup { PollResponse(FALSE, TRUE, "dict", "completed", Payload(rid, r)) :
              r \in ResultsOf(key) }

\* A poll_result call: st is "idle" before the call, "running" inside the
\* loop, "done" once it has returned `result`.
IdlePoll ==
    [st |-> "idle", request_id |-> "", max_attempts |-> 0, attempts |-> 0,
     sleeps |-> 0, result |-> NonePayload]

StartPoll(rid, max_attempts) ==
    [st |-> IF max_attempts = 0 THEN "done" ELSE "running",
     request_id |-> rid, max_attempts |-> max_attempts, attempts |-> 0,
     sleeps |-> 0, result |-> NonePayload]

\* classify reading the status before the success flag.
classify_status_first(resp) ==
    IF resp.exc THEN "sleep"
    ELSE IF resp.data_shape = "null" THEN "sleep"
    ELSE LET status == IF resp.data_shape = "dict" THEN resp.status ELSE ""
         IN  IF status = "completed" THEN "return_data"
             ELSE IF status = "failed" \/ ~resp.success THEN "return_none"
             ELSE "sleep"

\* classify without the try/except: a transport error ends the poll.
classify_error_ends(resp) ==
    IF resp.exc \/ ~resp.success THEN "return_none"
    ELSE IF resp.data_shape = "null" THEN "sleep"
    ELSE LET status == IF resp.data_shape = "dict" THEN resp.status ELSE ""
         IN  IF status = "completed" THEN "return_data"
             ELSE IF status = "failed" THEN "return_none"
             ELSE "sleep"

\* The protocol-level reading of one response (lines 257-268).
\* "return_none", "return_data" or "sleep".
classify(resp) ==
    IF resp.exc THEN "sleep"                                   \* except: sleep
    ELSE IF ~resp.success THEN "return_none"                   \* line 259
    ELSE IF resp.data_shape = "null" THEN "sleep"              \* None.get raises
    ELSE LET status == IF resp.data_shape = "dict" THEN resp.status ELSE ""
         IN  IF status = "completed" THEN "return_data"
             ELSE IF status = "failed" THEN "return_none"
             ELSE "sleep"

\* poll_step returning the response's data on a failure too.
poll_step_returns_data(p, resp) ==
    LET c == classify(resp)
        n == p.attempts + 1
    IN  CASE c = "return_data" \/ c = "return_none" ->
                [p EXCEPT !.attempts = n, !.st = "done", !.result = resp.data]
          [] OTHER ->
                [p EXCEPT !.attempts = n, !.sleeps = @ + 1,
                          !.st = IF n >= p.max_attempts THEN "done" ELSE "running"]

\* poll_step with range(max_attempts + 1): one attempt too many.
poll_step_one_more(p, resp) ==
    LET c == classify(resp)
        n == p.attempts + 1
    IN  CASE c = "return_data" ->
                [p EXCEPT !.attempts = n, !.st = "done", !.result = resp.data]
          [] c = "return_none" ->
                [p EXCEPT !.attempts = n, !.st = "done"]
          [] OTHER ->
                [p EXCEPT !.attempts = n, !.sleeps = @ + 1,
                          !.st = IF n > p.max_attempts THEN "done" ELSE "running"]

\* One iteration of the loop of poll_result (lines 249-274): the status
\* check, its reading, and the sleep that follows a non-terminal reading.
poll_step(p, resp) ==
    LET c == classify(resp)
        n == p.attempts + 1
    IN  CASE c = "return_data" ->
                [p EXCEPT !.attempts = n, !.st = "done", !.result = resp.data]
          [] c = "return_none" ->
                [p EXCEPT !.attempts = n, !.st = "done"]
          [] OTHER ->
                [p EXCEPT !.attempts = n, !.sleeps = @ + 1,
                          !.st = IF n >= p.max_attempts THEN "done" ELSE "running"]

\* What is left of a poll_result call once it has returned into poll_task
\* (lines 358-360) or into `result` (lines 407, 428, 446): the returned value;
\* the loop's locals are gone.
poll_task(p) ==
    IF p.st = "done"
    THEN [p EXCEPT !.attempts = 0, !.sleeps = 0, !.max_attempts = 0]
    ELSE p

\* ------------------------------------------------------------------ phase 3 helpers

\* result_data = results.enrichment.get("result", {}) (line 384): a missing
\* key reads as {}, whose every .get gives the default.
result_data_of(payload) ==
    IF payload.result.shape = "absent" THEN AbsentResult ELSE payload.result

\* derive_name with the two parts in the wrong order.
derive_name_last_first(name, rd) ==
    IF name # "" THEN [raised |-> FALSE, value |-> name]
    ELSE IF rd.shape = "null" THEN [raised |-> TRUE, value |-> name]
    ELSE IF rd.firstname # "" /\ rd.lastname # ""
         THEN [raised |-> FALSE, value |-> rd.lastname \o " " \o rd.firstname]
    ELSE [raised |-> FALSE, value |-> name]

\* Lines 387-391. raised: result_data.get on None raises AttributeError.
derive_name(name, rd) ==
    IF name # "" THEN [raised |-> FALSE, value |-> name]
    ELSE IF rd.shape = "null" THEN [raised |-> TRUE, value |-> name]
    ELSE IF rd.firstname # "" /\ rd.lastname # ""
         THEN [raised |-> FALSE, value |-> rd.firstname \o " " \o rd.lastname]
    ELSE [raised |-> FALSE, value |-> name]

\* derive_company without the test of line 394: a derived company replaces
\* the caller's.
derive_company_overrides(company, rd) ==
    IF rd.shape = "null" THEN [raised |-> TRUE, value |-> company]
    ELSE IF rd.careers_info # "list" THEN [raised |-> FALSE, value |-> company]
    ELSE IF rd.career0 = "null" THEN [raised |-> TRUE, value |-> company]
    ELSE [raised |-> FALSE, value |-> rd.company_name]

\* Lines 394-397. careers[0].get raises when the first entry is null.
derive_company(company, rd) ==
    IF company # "" THEN [raised |-> FALSE, value |-> company]
    ELSE IF rd.shape = "null" THEN [raised |-> TRUE, value |-> company]
    ELSE IF rd.careers_info # "list" THEN [raised |-> FALSE, value |-> company]
    ELSE IF rd.career0 = "null" THEN [raised |-> TRUE, value |-> company]
    ELSE [raised |-> FALSE, value |-> rd.company_name]

\* wants_articles with the membership test inverted.
wants_articles_inverted(inp, rids) ==
    inp.name # "" /\ inp.company # "" /\ rids["articles"] # ""

\* Line 400: is the wave-2 article search attempted.
wants_articles(inp, rids) ==
    inp.name # "" /\ inp.company # "" /\ rids["articles"] = ""

\* Discovery without the two guards of lines 417 and 435.
wants_following_always(k, rids, res) == TRUE

\* Discovery guarded by the slot alone, not by the wave-1 handle.
wants_following_unfilled(k, rids, res) == ~Truthy(res[k])

\* Lines 417 and 435: is discovery attempted for the network of key k.
wants_following(k, rids, res) ==
    rids[k] = "" /\ ~Truthy(res[k])

\* Lines 418-419 and 436-437: the URL of one network in social_profiles.
\* raised: social_profiles or the network's entry is null.
discover_url(k, rd) ==
    LET entry == IF k = "following_twitter" THEN rd.twitter ELSE rd.instagram
        url == IF k = "following_twitter" THEN rd.twitter_url ELSE rd.instagram_url
    IN  IF rd.social_profiles = "null" THEN [raised |-> TRUE, value |-> ""]
        ELSE IF rd.social_profiles = "absent" THEN [raised |-> FALSE, value |-> ""]
        ELSE IF entry = "null" THEN [raised |-> TRUE, value |-> ""]
        ELSE IF entry = "absent" THEN [raised |-> FALSE, value |-> ""]
        ELSE [raised |-> FALSE, value |-> url]

\* ------------------------------------------------------------------ initial state

OrchInit ==
    /\ NYNE_API_KEY \in {"", "key"}
    /\ NYNE_API_SECRET \in {"", "secret"}
    /\ input_data \in Inputs
    /\ caller_input = input_data
    /\ results = ResearchResults
    /\ request_ids = [k \in Keys |-> ""]
    /\ pc = "start"
    /\ polls = [k \in Keys |-> IdlePoll]
    /\ joined = {}
    /\ posts = [k \in Keys |-> 0]
    /\ writes = [k \in Keys |-> 0]
    /\ sent = [k \in Keys |-> <<>>]

\* generate_dossier has not been called.
DossierIdle ==
    /\ llm = "auto"
    /\ api_keys = {}
    /\ dossier_results = [enrichment |-> "none", following_twitter |-> <<>>,
                          following_instagram |-> <<>>, articles |-> FALSE]
    /\ gpc = "idle"
    /\ llm_name = ""
    /\ all_following = <<>>
    /\ batches = <<>>
    /\ futures = <<>>
    /\ following_analyses = <<>>
    /\ completion_order = <<>>
    /\ llm_calls = <<>>
    /\ synthesis_prompt = [enrichment_data |-> "", following_analyses |-> "",
                           articles_data |-> ""]
    /\ dossier = ""

Init ==
    /\ OrchInit
    /\ call = IdlePoll
    /\ log = <<>>
    /\ DossierIdle

\* ------------------------------------------------------------------ deep_research

\* Lines 286-296: the credentials check.
CheckCredentials ==
    /\ pc = "start"
    /\ pc' = IF get_headers(NYNE_API_KEY, NYNE_API_SECRET) = ""
             THEN "returned" ELSE "submit_enrichment"
    /\ UNCHANGED <<caller_input, NYNE_API_KEY, NYNE_API_SECRET, input_data, results, request_ids,
                   polls, joined, posts, call, log, dossier_vars, writes, sent>>

\* The request id of a response that reports a successful submission (no
\* transport or parse error, success flag set, an id under "data"), else "".
accepted_id(resp) ==
    IF ~resp.exc /\ resp.success /\ resp.data_shape = "dict" THEN resp.request_id ELSE ""

\* The record of one POST: the wave it belongs to, its arguments, and the
\* id of the provider's answer when that answer reports success.
Posted(wave, args, resp) == [wave |-> wave, args |-> args, accepted |-> accepted_id(resp)]

\* One wave-1 submission for key k: the submit_* function is called when
\* `called`; it issues its POST (with args) when `does_post`; a returned id
\* is stored.
Wave1Submit(k, called, does_post, args, next) ==
    /\ IF called /\ does_post
       THEN \E resp \in SubmitResponses(NewId(k, posts[k] + 1)) :
               LET req_id == parse_submission(resp)
               IN  /\ posts' = [posts EXCEPT ![k] = @ + 1]
                   /\ sent' = [sent EXCEPT ![k] = Append(@, Posted(1, args, resp))]
                   /\ request_ids' = IF req_id # ""
                                     THEN [request_ids EXCEPT ![k] = req_id]
                                     ELSE request_ids
       ELSE UNCHANGED <<posts, request_ids, sent>>
    /\ pc' = next
    /\ UNCHANGED <<caller_input, NYNE_API_KEY, NYNE_API_SECRET, input_data, results, polls, joined,
                   call, log, dossier_vars, writes>>

\* Lines 309-316.
SubmitEnrichment ==
    /\ pc = "submit_enrichment"
    /\ Wave1Submit("enrichment", TRUE, submit_enrichment_posts(input_data),
                   <<input_data.email, input_data.linkedin_url>>, "submit_twitter")

\* Lines 319-324.
SubmitTwitter ==
    /\ pc = "submit_twitter"
    /\ Wave1Submit("following_twitter", input_data.twitter_url # "",
                   submit_following_posts(input_data.twitter_url),
                   <<input_data.twitter_url>>, "submit_instagram")

\* Lines 325-330.
SubmitInstagram ==
    /\ pc = "submit_instagram"
    /\ Wave1Submit("following_instagram", input_data.instagram_url # "",
                   submit_following_posts(input_data.instagram_url),
                   <<input_data.instagram_url>>, "submit_articles")

\* Lines 333-338.
SubmitArticles ==
    /\ pc = "submit_articles"
    /\ Wave1Submit("articles", input_data.name # "" /\ input_data.company # "",
                   submit_article_search_posts(input_data.name, input_data.company),
                   <<input_data.name, input_data.company>>, "enter_pool")

Min(a, b) == IF a <= b THEN a ELSE b

\* A pool that starts every task it is given at once.
pool_starts_all(workers, n) == n

\* ThreadPoolExecutor: of n tasks submitted to an idle pool, the number that
\* start at once; the others wait in the pool's queue.
pool_starts(workers, n) == Min(n, workers)

\* Line 362: ThreadPoolExecutor(max_workers=4) of the wave-1 polls.
poll_workers == 4

\* The keys in the order lines 309-338 put them into request_ids.
KeyOrder == <<"enrichment", "following_twitter", "following_instagram", "articles">>

\* The position of key k among the keys of request_ids.
rank(k, rids) ==
    Cardinality({j \in 1..Len(KeyOrder) :
                    /\ rids[KeyOrder[j]] # ""
                    /\ \E i \in j..Len(KeyOrder) : KeyOrder[i] = k})

\* A pool of wave-1 polls with a single worker.
wave1_starts_one(n) == Min(n, 1)

\* Lines 362-366: of the n poll tasks submitted, the number the pool starts
\* at once.
wave1_starts(n) == pool_starts(poll_workers, n)

\* The oldest poll still in the pool's queue, as a set (empty when none).
next_queued(ps, rids) ==
    {k \in Keys : /\ ps[k].st = "queued"
                  /\ \A j \in Keys : ps[j].st = "queued" => rank(k, rids) <= rank(j, rids)}

\* Lines 340-366: return when nothing was submitted, else hand one poll_task
\* per request id to the pool (four workers, at most four keys: all start).
EnterPool ==
    /\ pc = "enter_pool"
    /\ IF \A k \in Keys : request_ids[k] = ""
       THEN pc' = "returned" /\ UNCHANGED polls
       ELSE /\ pc' = "pool"
            /\ polls' = [k \in Keys |->
                            IF request_ids[k] = "" THEN polls[k]
                            ELSE IF rank(k, request_ids)
                                      <= wave1_starts(Cardinality({j \in Keys : request_ids[j] # ""}))
                            THEN StartPoll(request_ids[k], DefaultMaxAttempts)
                            ELSE [StartPoll(request_ids[k], DefaultMaxAttempts)
                                     EXCEPT !.st = "queued"]]
    /\ UNCHANGED <<caller_input, NYNE_API_KEY, NYNE_API_SECRET, input_data, results, request_ids,
                   joined, posts, call, log, dossier_vars, writes, sent>>

\* A poll_task that writes its result into the accumulator itself.
after_poll_task_writes(res, k, p) ==
    IF p.st = "done" /\ Truthy(p.result) THEN [res EXCEPT ![k] = p.result] ELSE res

\* Lines 358-360 and 243-274: the accumulator after a step of poll_task for
\* key k: poll_task and poll_result return values and assign nothing to it.
after_poll_task(res, k, p) == res

\* One iteration of poll_result for key k, in a pool worker (wave 1) or in
\* the orchestrator thread (wave 2). A pool worker whose poll has returned
\* takes the oldest task still in the queue.
PollAttempt(k) ==
    /\ polls[k].st = "running"
    /\ \E resp \in PollResponses(k, polls[k].request_id) :
           LET after == [polls EXCEPT ![k] = poll_task(poll_step(@, resp))]
           IN  polls' = [j \in Keys |->
                            IF after[k].st = "done" /\ j \in next_queued(after, request_ids)
                            THEN [after[j] EXCEPT !.st = "running"]
                            ELSE after[j]]
    /\ results' = after_poll_task(results, k, polls'[k])
    /\ UNCHANGED <<caller_input, NYNE_API_KEY, NYNE_API_SECRET, input_data, request_ids,
                   pc, joined, posts, call, log, dossier_vars, writes, sent>>

\* store_result where a job without data resets the accumulator.
store_result_reset(res, k, result) ==
    IF Truthy(result) THEN [res EXCEPT ![k] = result] ELSE ResearchResults

\* Lines 371-372 (and 408-409, 429-430, 447-448): a truthy result is written
\* into its slot, a None result leaves the accumulator alone.
store_result(res, k, result) ==
    IF Truthy(result) THEN [res EXCEPT ![k] = result] ELSE res

\* Which futures the as_completed loop may hand out next.
ready(k) == polls[k].st = "done" /\ request_ids[k] # "" /\ k \notin joined

\* Lines 368-378: the orchestrator consumes one finished future.
Collect(k) ==
    /\ pc = "pool"
    /\ ready(k)
    /\ joined' = joined \cup {k}
    /\ results' = store_result(results, k, polls[k].result)
    /\ writes' = IF Truthy(polls[k].result) THEN [writes EXCEPT ![k] = @ + 1] ELSE writes
    /\ UNCHANGED <<caller_input, NYNE_API_KEY, NYNE_API_SECRET, input_data, request_ids, pc,
                   polls, posts, call, log, dossier_vars, sent>>

\* A race instead of a join: the first consumed future ends the wait.
pool_drained_first(rids, done) == \E k \in Keys : rids[k] # "" /\ k \in done

\* May the orchestrator leave the as_completed loop and the `with` block.
pool_drained(rids, done) == \A k \in Keys : rids[k] # "" => k \in done

\* End of the `with` block (line 378 to 383).
LeavePool ==
    /\ pc = "pool"
    /\ pool_drained(request_ids, joined)
    /\ pc' = "derive"
    /\ UNCHANGED <<caller_input, NYNE_API_KEY, NYNE_API_SECRET, input_data, results, request_ids,
                   polls, joined, posts, call, log, dossier_vars, writes, sent>>

\* Lines 383-397: name and company derivation.
Derive ==
    /\ pc = "derive"
    /\ IF ~Truthy(results.enrichment)
       THEN pc' = "returned" /\ UNCHANGED input_data
       ELSE LET rd == result_data_of(results.enrichment)
                n == derive_name(input_data.name, rd)
                c == derive_company(input_data.company, rd)
            IN  IF n.raised
                THEN pc' = "raised" /\ UNCHANGED input_data
                ELSE IF c.raised
                THEN /\ pc' = "raised"
                     /\ input_data' = [input_data EXCEPT !.name = n.value]
                ELSE /\ pc' = "w2_articles"
                     /\ input_data' = [input_data EXCEPT !.name = n.value,
                                                         !.company = c.value]
    /\ UNCHANGED <<caller_input, NYNE_API_KEY, NYNE_API_SECRET, results, request_ids, polls,
                   joined, posts, call, log, dossier_vars, writes, sent>>

\* A wave-2 submission for key k followed, when it yields an id, by the
\* synchronous poll_result call.
Wave2Submit(k, args, polling, next) ==
    \E resp \in SubmitResponses(NewId(k, posts[k] + 1)) :
        LET req_id == parse_submission(resp)
        IN  /\ posts' = [posts EXCEPT ![k] = @ + 1]
            /\ sent' = [sent EXCEPT ![k] = Append(@, Posted(2, args, resp))]
            /\ IF req_id # ""
               THEN /\ polls' = [polls EXCEPT ![k] = StartPoll(req_id, DefaultMaxAttempts)]
                    /\ pc' = polling
               ELSE /\ pc' = next
                    /\ UNCHANGED polls

\* Lines 400-405.
W2Articles ==
    /\ pc = "w2_articles"
    /\ IF /\ wants_articles(input_data, request_ids)
          /\ submit_article_search_posts(input_data.name, input_data.company)
       THEN Wave2Submit("articles", <<input_data.name, input_data.company>>,
                        "w2_articles_poll", "w2_twitter")
       ELSE pc' = "w2_twitter" /\ UNCHANGED <<posts, polls, sent>>
    /\ UNCHANGED <<caller_input, NYNE_API_KEY, NYNE_API_SECRET, input_data, results, request_ids,
                   joined, call, log, dossier_vars, writes>>

\* A wave 2 that gives up after a job without data.
after_wave2_job_stops(result, next) == IF Truthy(result) THEN next ELSE "returned"

\* Lines 408-411, 429-432, 447-450: where the orchestrator goes once a
\* wave-2 poll has returned: on to the next step, with or without data.
after_wave2_job(result, next) == next

\* Lines 407-411, 428-432, 446-450: poll_result has returned to the orchestrator.
Wave2Store(k, polling, next) ==
    /\ pc = polling
    /\ polls[k].st = "done"
    /\ results' = store_result(results, k, polls[k].result)
    /\ writes' = IF Truthy(polls[k].result) THEN [writes EXCEPT ![k] = @ + 1] ELSE writes
    /\ pc' = after_wave2_job(polls[k].result, next)
    /\ UNCHANGED <<caller_input, NYNE_API_KEY, NYNE_API_SECRET, input_data, request_ids, polls,
                   joined, posts, call, log, dossier_vars, sent>>

W2ArticlesStore == Wave2Store("articles", "w2_articles_poll", "w2_twitter")

\* Discovery and submission for one network (lines 414-426 for twitter, with
\* the read of social_profiles; lines 435-444 for instagram).
Wave2Following(k, polling, next) ==
    LET rd == result_data_of(results.enrichment)
    IN  IF k = "following_twitter" /\ rd.shape = "null"
        THEN pc' = "raised" /\ UNCHANGED <<posts, polls, sent>>        \* line 414
        ELSE IF ~wants_following(k, request_ids, results)
        THEN pc' = next /\ UNCHANGED <<posts, polls, sent>>
        ELSE LET u == discover_url(k, rd)
             IN  IF u.raised
                 THEN pc' = "raised" /\ UNCHANGED <<posts, polls, sent>>
                 ELSE IF u.value # "" /\ submit_following_posts(u.value)
                 THEN Wave2Submit(k, <<u.value>>, polling, next)
                 ELSE pc' = next /\ UNCHANGED <<posts, polls, sent>>

W2Twitter ==
    /\ pc = "w2_twitter"
    /\ Wave2Following("following_twitter", "w2_twitter_poll", "w2_instagram")
    /\ UNCHANGED <<caller_input, NYNE_API_KEY, NYNE_API_SECRET, input_data, results, request_ids,
                   joined, call, log, dossier_vars, writes>>

W2TwitterStore == Wave2Store("following_twitter", "w2_twitter_poll", "w2_instagram")

W2Instagram ==
    /\ pc = "w2_instagram"
    /\ Wave2Following("following_instagram", "w2_instagram_poll", "returned")
    /\ UNCHANGED <<caller_input, NYNE_API_KEY, NYNE_API_SECRET, input_data, results, request_ids,
                   joined, call, log, dossier_vars, writes>>

W2InstagramStore == Wave2Store("following_instagram", "w2_instagram_poll", "returned")

Next ==
    \/ CheckCredentials
    \/ SubmitEnrichment
    \/ SubmitTwitter
    \/ SubmitInstagram
    \/ SubmitArticles
    \/ EnterPool
    \/ \E k \in Keys : PollAttempt(k)
    \/ \E k \in Keys : Collect(k)
    \/ LeavePool
    \/ Derive
    \/ W2Articles
    \/ W2ArticlesStore
    \/ W2Twitter
    \/ W2TwitterStore
    \/ W2Instagram
    \/ W2InstagramStore

Spec == Init /\ [][Next]_vars

\* Every thread that can take a step is eventually scheduled, and every
\* network call returns or times out (timeout=30 on each request).
FairSpec == Spec /\ WF_vars(Next)

\* ------------------------------------------------------------------ poll_result alone

PollInit ==
    /\ NYNE_API_KEY = "key"
    /\ NYNE_API_SECRET = "secret"
    /\ input_data = ResearchInput("", "", "", "", "", "")
    /\ caller_input = input_data
    /\ results = ResearchResults
    /\ request_ids = [k \in Keys |-> ""]
    /\ pc = "poll_result"
    /\ polls = [k \in Keys |-> IdlePoll]
    /\ joined = {}
    /\ posts = [k \in Keys |-> 0]
    /\ writes = [k \in Keys |-> 0]
    /\ sent = [k \in Keys |-> <<>>]
    /\ \E m \in 0..MaxCeiling : call = StartPoll(NewId("enrichment", 1), m)
    /\ log = <<>>
    /\ DossierIdle

\* One iteration of the loop of poll_result, the response appended to log.
PollCall ==
    /\ call.st = "running"
    /\ \E resp \in PollResponses("enrichment", call.request_id) :
           /\ call' = poll_step(call, resp)
           /\ log' = Append(log, resp)
    /\ UNCHANGED <<orch_vars, dossier_vars>>

PollNext == PollCall

PollSpec == PollInit /\ [][PollNext]_vars

\* ------------------------------------------------------------------ generate_dossier

\* Upper bound on the interactions of one following payload.
MaxInteractions == 3

\* Line 801 has batch_size = 75; the model uses a small window.
batch_size == 2

\* Line 830 has max_workers=5; the model uses a small pool.
max_workers == 2

Backends == {"gemini", "openai", "anthropic"}

\* Lines 731-746: the name of the caller chosen, "" when it returns (None, None).
_get_llm_caller(l, keys) ==
    IF l = "gemini" /\ "gemini" \in keys THEN "gemini"
    ELSE IF l = "openai" /\ "openai" \in keys THEN "openai"
    ELSE IF l = "anthropic" /\ "anthropic" \in keys THEN "anthropic"
    ELSE IF l = "auto"
         THEN (IF "gemini" \in keys THEN "gemini"
               ELSE IF "openai" \in keys THEN "openai"
               ELSE IF "anthropic" \in keys THEN "anthropic"
               ELSE "")
    ELSE ""

\* The interactions of a following payload with n entries.
Interactions(n) == [i \in 1..n |-> [handle |-> i]]

\* Lines 791-792 and 796-797: item["_source"] = source for each item.
Tag(items, source) ==
    [i \in 1..Len(items) |-> [handle |-> items[i].handle, source |-> source]]

\* Lines 788-798: twitter's interactions, then instagram's. An empty sequence
\* stands for an empty slot as well: nothing is added in either case.
merge_following(r) ==
    Tag(r.following_twitter, "twitter") \o Tag(r.following_instagram, "instagram")

\* The slice with one entry too many.
Slice_inclusive(list, lo, hi) == SubSeq(list, lo + 1, Min(hi + 1, Len(list)))

\* Python's list[lo:hi] for 0 <= lo <= hi.
Slice(list, lo, hi) == SubSeq(list, lo + 1, Min(hi, Len(list)))

RECURSIVE Windows(_, _, _)
\* Line 802: [list[i:i + size] for i in range(start, len(list), size)].
Windows(list, start, size) ==
    IF start >= Len(list) THEN <<>>
    ELSE <<Slice(list, start, start + size)>> \o Windows(list, start + size, size)

\* Line 802, `if all_following else []` included.
make_batches(list, size) == IF list = <<>> THEN <<>> ELSE Windows(list, 0, size)

\* The text a backend gives for the prompt of batch idx.
AnalysisText(idx) == "analysis#" \o ToString(idx)

\* Lines 680-728: what llm_call returns for a batch prompt: a text, or ""
\* for None (exception, missing key) and for an empty text.
BatchOutcomes(idx) == {AnalysisText(idx), ""}

SynthesisOutcomes == {"dossier", ""}

NoFuture == [st |-> "queued", analysis |-> ""]

\* Line 835 with every analysis kept.
keeps_all(analysis) == TRUE

\* Line 835: `if analysis:`.
keeps(analysis) == analysis # ""

\* The analyses left in completion order.
unsorted(pairs) == pairs

RECURSIVE insert_by_idx(_, _)
insert_by_idx(pair, sorted) ==
    IF sorted = <<>> THEN <<pair>>
    ELSE IF pair.idx < Head(sorted).idx THEN <<pair>> \o sorted
    ELSE <<Head(sorted)>> \o insert_by_idx(pair, Tail(sorted))

RECURSIVE sort_pairs(_)
sort_pairs(pairs) ==
    IF pairs = <<>> THEN <<>>
    ELSE insert_by_idx(pairs[Len(pairs)], sort_pairs(SubSeq(pairs, 1, Len(pairs) - 1)))

\* Line 843: following_analyses.sort(key=lambda x: x[0]).
sort_by_idx(pairs) == sort_pairs(pairs)

\* Line 844: [a[1] for a in following_analyses].
strip_idx(pairs) == [i \in 1..Len(pairs) |-> pairs[i].analysis]

RECURSIVE join(_)
\* Line 851: "\n\n---\n\n".join(texts).
join(texts) ==
    IF texts = <<>> THEN ""
    ELSE IF Len(texts) = 1 THEN texts[1]
    ELSE texts[1] \o "\n\n---\n\n" \o join(Tail(texts))

\* make_synthesis_prompt with the following sentinel in lower case.
make_synthesis_prompt_lower(r, analyses) ==
    [enrichment_data |-> IF r.enrichment # "none" THEN "json(enrichment)"
                         ELSE "No enrichment data",
     following_analyses |-> IF analyses # <<>> THEN join(analyses)
                            ELSE "no following data analyzed",
     articles_data |-> IF r.articles THEN "json(articles)" ELSE "No articles found"]

\* Lines 850-858: the three sections of the synthesis prompt.
make_synthesis_prompt(r, analyses) ==
    [enrichment_data |-> IF r.enrichment # "none" THEN "json(enrichment)"
                         ELSE "No enrichment data",
     following_analyses |-> IF analyses # <<>> THEN join(analyses)
                            ELSE "No following data analyzed",
     articles_data |-> IF r.articles THEN "json(articles)" ELSE "No articles found"]

GenerationCall(kind, idx) == [kind |-> kind, idx |-> idx, backend |-> llm_name]

\* The calls of generate_dossier start from a fixed orchestrator state.
DossierInit ==
    /\ NYNE_API_KEY = "key"
    /\ NYNE_API_SECRET = "secret"
    /\ input_data = ResearchInput("", "", "", "", "", "")
    /\ caller_input = input_data
    /\ results = ResearchResults
    /\ request_ids = [k \in Keys |-> ""]
    /\ pc = "generate_dossier"
    /\ polls = [k \in Keys |-> IdlePoll]
    /\ joined = {}
    /\ posts = [k \in Keys |-> 0]
    /\ writes = [k \in Keys |-> 0]
    /\ sent = [k \in Keys |-> <<>>]
    /\ call = IdlePoll
    /\ log = <<>>
    /\ llm \in {"auto", "openai"}
    /\ api_keys \in {{}, {"anthropic"}, {"gemini", "openai"}}
    /\ \E e \in {"none", "dict", "null_result"}, a \in BOOLEAN,
          nt \in 0..MaxInteractions, ni \in 0..MaxInteractions :
            dossier_results = [enrichment |-> e,
                               following_twitter |-> Interactions(nt),
                               following_instagram |-> Interactions(ni),
                               articles |-> a]
    /\ gpc = "start"
    /\ llm_name = ""
    /\ all_following = <<>>
    /\ batches = <<>>
    /\ futures = <<>>
    /\ following_analyses = <<>>
    /\ completion_order = <<>>
    /\ llm_calls = <<>>
    /\ synthesis_prompt = [enrichment_data |-> "", following_analyses |-> "",
                           articles_data |-> ""]
    /\ dossier = ""

\* Lines 770-785: the caller is chosen; without one the function returns
\* None. result_data.get at line 782 raises AttributeError when the
\* enrichment payload holds "result": null.
GetLlmCaller ==
    /\ gpc = "start"
    /\ llm_name' = _get_llm_caller(llm, api_keys)
    /\ gpc' = IF llm_name' = "" THEN "returned"
              ELSE IF dossier_results.enrichment = "null_result" THEN "raised"
              ELSE "batch"
    /\ UNCHANGED <<llm, api_keys, dossier_results, all_following, batches, futures,
                   following_analyses, completion_order, llm_calls, synthesis_prompt,
                   dossier>>
    /\ UNCHANGED <<orch_vars, call, log>>

\* Lines 788-806: the following lists are merged and cut into batches.
BatchFollowing ==
    /\ gpc = "batch"
    /\ all_following' = merge_following(dossier_results)
    /\ batches' = make_batches(all_following', batch_size)
    /\ gpc' = IF batches' # <<>> THEN "dispatch" ELSE "synthesize"
    /\ UNCHANGED <<llm, api_keys, dossier_results, llm_name, futures,
                   following_analyses, completion_order, llm_calls, synthesis_prompt,
                   dossier>>
    /\ UNCHANGED <<orch_vars, call, log>>

\* The batch indices (0-based) whose future is in state st.
InState(fs, st) == {i \in 0..(Len(fs) - 1) : fs[i + 1].st = st}

\* Lines 830-831: every batch prompt is submitted; the pool starts the first
\* max_workers of them, the others wait in its queue.
Dispatch ==
    /\ gpc = "dispatch"
    /\ futures' = [i \in 1..Len(batches) |->
                      [NoFuture EXCEPT !.st =
                          IF i <= pool_starts(max_workers, Len(batches)) THEN "running"
                          ELSE "queued"]]
    /\ llm_calls' = [i \in 1..pool_starts(max_workers, Len(batches)) |->
                        GenerationCall("batch", i - 1)]
    /\ gpc' = "analyze"
    /\ UNCHANGED <<llm, api_keys, dossier_results, llm_name, all_following, batches,
                   following_analyses, completion_order, synthesis_prompt, dossier>>
    /\ UNCHANGED <<orch_vars, call, log>>

\* Lines 826-828: a worker's analyze_batch returns; the worker then takes
\* the oldest task still in the queue.
AnalyzeBatch(idx) ==
    /\ gpc = "analyze"
    /\ idx \in InState(futures, "running")
    /\ \E analysis \in BatchOutcomes(idx) :
         LET done == [futures EXCEPT ![idx + 1] = [st |-> "done", analysis |-> analysis]]
             queued == InState(done, "queued")
         IN  IF queued = {}
             THEN /\ futures' = done
                  /\ llm_calls' = llm_calls
             ELSE LET nxt == CHOOSE i \in queued : \A j \in queued : i <= j
                  IN  /\ futures' = [done EXCEPT ![nxt + 1].st = "running"]
                      /\ llm_calls' = Append(llm_calls, GenerationCall("batch", nxt))
    /\ UNCHANGED <<llm, api_keys, dossier_results, gpc, llm_name, all_following, batches,
                   following_analyses, completion_order, synthesis_prompt, dossier>>
    /\ UNCHANGED <<orch_vars, call, log>>

\* Lines 833-840: one iteration of the as_completed loop.
JoinBatch(idx) ==
    /\ gpc = "analyze"
    /\ idx \in InState(futures, "done")
    /\ futures' = [futures EXCEPT ![idx + 1].st = "joined"]
    /\ completion_order' = Append(completion_order, idx)
    /\ following_analyses' =
          IF keeps(futures[idx + 1].analysis)
          THEN Append(following_analyses,
                      [idx |-> idx, analysis |-> futures[idx + 1].analysis])
          ELSE following_analyses
    /\ UNCHANGED <<llm, api_keys, dossier_results, gpc, llm_name, all_following, batches,
                   llm_calls, synthesis_prompt, dossier>>
    /\ UNCHANGED <<orch_vars, call, log>>

\* Lines 833-844: the loop ends once every future was yielded; the analyses
\* are sorted by batch index and the indices dropped.
SortAnalyses ==
    /\ gpc = "analyze"
    /\ InState(futures, "joined") = 0..(Len(futures) - 1)
    /\ following_analyses' = strip_idx(sort_by_idx(following_analyses))
    /\ gpc' = "synthesize"
    /\ UNCHANGED <<llm, api_keys, dossier_results, llm_name, all_following, batches,
                   futures, completion_order, llm_calls, synthesis_prompt, dossier>>
    /\ UNCHANGED <<orch_vars, call, log>>

\* Lines 850-866: the synthesis prompt is built, the synthesis call made and
\* its outcome returned.
Synthesize ==
    /\ gpc = "synthesize"
    /\ synthesis_prompt' = make_synthesis_prompt(dossier_results, following_analyses)
    /\ llm_calls' = Append(llm_calls, GenerationCall("synthesis", -1))
    /\ dossier' \in SynthesisOutcomes
    /\ gpc' = "returned"
    /\ UNCHANGED <<llm, api_keys, dossier_results, llm_name, all_following, batches,
                   futures, following_analyses, completion_order>>
    /\ UNCHANGED <<orch_vars, call, log>>

DossierNext ==
    \/ GetLlmCaller
    \/ BatchFollowing
    \/ Dispatch
    \/ \E idx \in 0..(Len(futures) - 1) : AnalyzeBatch(idx)
    \/ \E idx \in 0..(Len(futures) - 1) : JoinBatch(idx)
    \/ SortAnalyses
    \/ Synthesize

DossierSpec == DossierInit /\ [][DossierNext]_vars

\* ------------------------------------------------------------------ the program

\* A run of the program is a call of deep_research or a call of
\* generate_dossier (main, lines 1000 and 1010, calls one after the other).
ProgramInit == Init \/ DossierInit

ProgramNext == Next \/ DossierNext

ProgramSpec == ProgramInit /\ [][ProgramNext]_vars

\* ------------------------------------------------------------------ properties

CredentialsMissing == NYNE_API_KEY = "" \/ NYNE_API_SECRET = ""

AllEmpty(inp) == inp = ResearchInput("", "", "", "", "", "")

AllSet(inp) ==
    /\ inp.email # "" /\ inp.linkedin_url # "" /\ inp.twitter_url # ""
    /\ inp.instagram_url # "" /\ inp.name # "" /\ inp.company # ""

\* Key k got a request id in wave 1.
Wave1(k) == request_ids[k] # ""

\* The orchestrator is past the `with` block of phase 2.
PastPool == pc \notin {"start", "submit_enrichment", "submit_twitter", "submit_instagram",
                       "submit_articles", "enter_pool", "pool", "poll_result"}

\* C1: with a credential missing deep_research issues no submission and no
\* status check, and what it returns has its four slots empty.
C1_NoCallWithoutCredentials ==
    CredentialsMissing =>
        /\ \A k \in Keys : posts[k] = 0 /\ polls[k] = IdlePoll
        /\ results = ResearchResults
        /\ pc \in {"start", "returned"}

C1_Witness == CredentialsMissing /\ pc = "returned" /\ AllSet(caller_input)

\* C2: for an input whose six fields are empty (credentials present) no
\* submission call is made, the four slots stay empty and nothing is raised.
C2_AllEmptySubmitsNothing ==
    (AllEmpty(caller_input) /\ ~CredentialsMissing) =>
        /\ \A k \in Keys : posts[k] = 0
        /\ results = ResearchResults
        /\ pc # "raised"

\* C3: for an input with neither email nor LinkedIn URL submit_enrichment
\* makes no outbound call and yields no handle.
C3_NoIdentifierNoEnrichmentCall ==
    (caller_input.email = "" /\ caller_input.linkedin_url = "") =>
        posts["enrichment"] = 0 /\ request_ids["enrichment"] = ""

\* C4: derivation and every wave-2 step come after every wave-1 job that was
\* started has a terminal outcome and has been joined: past the pool, and
\* whenever input_data differs from what the caller passed, no wave-1 poll is
\* still running.
C4_JoinBarrier ==
    (PastPool \/ input_data # caller_input) =>
        \A k \in Keys : Wave1(k) => polls[k].st = "done" /\ k \in joined

C4_Witness ==
    /\ pc = "derive"
    /\ \A k \in Keys : Wave1(k)
    /\ Truthy(polls["enrichment"].result)
    /\ ~Truthy(polls["articles"].result)

\* C5: every slot is assigned at most once in a run, and a slot filled by a
\* wave-1 job holds the payload of that job's request id at every later
\* point, the return included.
C5_SlotWrittenOnce ==
    \A k \in Keys :
        /\ writes[k] <= 1
        /\ (Wave1(k) /\ Truthy(results[k])) => results[k].request_id = request_ids[k]

C5_Witness ==
    /\ pc = "returned"
    /\ Wave1("enrichment") /\ writes["enrichment"] = 1
    /\ ~Wave1("following_twitter") /\ writes["following_twitter"] = 1
    /\ Wave1("following_instagram") /\ writes["following_instagram"] = 1
    /\ posts["following_instagram"] = 1

\* C6: once the pool is left, and so when deep_research returns, the slot of
\* every wave-1 job whose poll returned a payload holds that payload,
\* whatever the other wave-1 jobs returned.
C6_CompletedJobKept ==
    PastPool =>
        \A k \in Keys :
            (Wave1(k) /\ Truthy(polls[k].result)) => results[k] = polls[k].result

C6_Witness ==
    /\ pc = "returned"
    /\ \E k1, k2 \in Keys :
          /\ Wave1(k1) /\ Truthy(polls[k1].result) /\ results[k1] = polls[k1].result
          /\ Wave1(k2) /\ ~Truthy(polls[k2].result) /\ ~Truthy(results[k2])

\* The status a response reports: data.get("data", {}).get("status", "").
StatusOf(resp) == IF resp.data_shape = "dict" THEN resp.status ELSE ""

TransportError(resp) == resp.exc

\* The success flag is absent or false.
ProtocolFailure(resp) == ~resp.exc /\ ~resp.success

ReportsCompleted(resp) ==
    ~resp.exc /\ resp.success /\ resp.data_shape = "dict" /\ resp.status = "completed"

\* A readable response, success flag set, whose status is neither final value.
NonTerminalStatus(resp) ==
    /\ ~resp.exc /\ resp.success /\ resp.data_shape # "null"
    /\ StatusOf(resp) \notin {"completed", "failed"}

\* C7: when every status check reports a non-terminal status, poll_result
\* (max_attempts >= 1) is still polling after fewer than max_attempts checks
\* and has returned None after exactly max_attempts of them.
C7_TimesOutAfterExactlyMaxAttempts ==
    (call.max_attempts >= 1 /\ \A i \in 1..Len(log) : NonTerminalStatus(log[i])) =>
        /\ Len(log) <= call.max_attempts
        /\ call.st = "done" <=> Len(log) = call.max_attempts
        /\ call.result = NonePayload

C7_Witness ==
    /\ call.st = "done"
    /\ call.max_attempts >= 2
    /\ Len(log) = call.max_attempts
    /\ \A i \in 1..Len(log) : NonTerminalStatus(log[i])

\* C8: a response whose success flag is absent or false, or whose status is
\* "completed", is the last status check of the call: poll_result has
\* returned (None, resp. that response's payload) having slept only after
\* the earlier responses.
C8_StopsAtFirstTerminal ==
    \A i \in 1..Len(log) :
        (ProtocolFailure(log[i]) \/ ReportsCompleted(log[i])) =>
            /\ i = Len(log)
            /\ call.st = "done"
            /\ call.sleeps = i - 1
            /\ call.result = IF ReportsCompleted(log[i]) THEN log[i].data ELSE NonePayload

C8_Witness ==
    /\ Len(log) = 2
    /\ ReportsCompleted(log[2])
    /\ call.st = "done"
    /\ call.result = log[2].data
    /\ call.sleeps = 1

\* Response i of the call did not end it before the ceiling: below the
\* ceiling another attempt was made or is still to come, and a call that
\* ended on response i ended at the ceiling, with None.
OnlyCeilingEnds(i) ==
    /\ i < call.max_attempts => (Len(log) > i \/ call.st = "running")
    /\ (i = Len(log) /\ call.st = "done") =>
           (i = call.max_attempts /\ call.result = NonePayload)

\* C9 as stated: a transport error, or a response with the success flag set
\* and any status other than "completed", never ends the poll by itself.
C9_AnyOtherStatusRetries ==
    \A i \in 1..Len(log) :
        (TransportError(log[i]) \/ (~log[i].exc /\ log[i].success /\ ~ReportsCompleted(log[i])))
            => OnlyCeilingEnds(i)

\* C9 amended: a transport error, or a response with the success flag set
\* and a status other than "completed" and "failed", never ends the poll by
\* itself; only the ceiling gives the timed-out None.
C9_NonFinalStatusRetries ==
    \A i \in 1..Len(log) :
        (TransportError(log[i])
            \/ (~log[i].exc /\ log[i].success /\ StatusOf(log[i]) \notin {"completed", "failed"}))
            => OnlyCeilingEnds(i)

C9_Witness ==
    /\ call.st = "done"
    /\ Len(log) = call.max_attempts
    /\ Len(log) >= 2
    /\ TransportError(log[1])
    /\ NonTerminalStatus(log[Len(log)])

\* No poll_result call inside deep_research is past its ceiling.
PollsBounded ==
    \A k \in Keys :
        polls[k].attempts <= DefaultMaxAttempts /\ polls[k].sleeps <= DefaultMaxAttempts

\* C10: every run of deep_research eventually returns, each of its polls
\* staying within max_attempts status checks and max_attempts sleeps.
C10_EventuallyReturns == []PollsBounded /\ <>(pc = "returned")

\* Every run of deep_research ends, by returning or by raising.
EventuallyEnds == <>(pc \in {"returned", "raised"})

\* ------------------------------------------------------------------ properties, C11-C17

\* C11: deep_research never raises past its boundary, whatever the input and
\* the provider's answers, shapes of the enrichment payload included.
C11_NeverRaises == pc # "raised"

\* The wave-1 submissions the caller's input calls for have all been made.
Wave1Attempted ==
    /\ Len(sent["enrichment"]) >= 1
    /\ caller_input.twitter_url # "" => Len(sent["following_twitter"]) >= 1
    /\ caller_input.instagram_url # "" => Len(sent["following_instagram"]) >= 1
    /\ (caller_input.name # "" /\ caller_input.company # "") => Len(sent["articles"]) >= 1

SubmitPhase == pc \in {"start", "submit_enrichment", "submit_twitter", "submit_instagram",
                       "submit_articles", "poll_result"}

\* C12: a failed submission yields no handle and stops nothing: a request id
\* is kept, and a poll is made, only for an id the provider answered with
\* success; once the submit phase is over every wave-1 submission the input
\* calls for has been made; every key with a handle is polled in the pool
\* and has ended when the pool is left; a key without handle is not polled
\* in the pool.
C12_FailedSubmissionNoHandle ==
    /\ \A k \in Keys :
          /\ Wave1(k) =>
                \E i \in 1..Len(sent[k]) :
                    sent[k][i].wave = 1 /\ sent[k][i].accepted = request_ids[k]
          /\ polls[k].st # "idle" =>
                \E i \in 1..Len(sent[k]) : sent[k][i].accepted = polls[k].request_id
          /\ pc = "pool" => (Wave1(k) <=> polls[k].st # "idle")
          /\ (PastPool /\ Wave1(k)) => polls[k].st = "done"
    /\ (~CredentialsMissing /\ ~SubmitPhase) => Wave1Attempted

C12_Witness ==
    /\ pc = "returned"
    /\ Len(sent["following_twitter"]) = 1
    /\ sent["following_twitter"][1].accepted = ""
    /\ ~Wave1("following_twitter")
    /\ Wave1("enrichment") /\ polls["enrichment"].st = "done"
    /\ Wave1("articles") /\ polls["articles"].st = "done"

\* The enrichment result carries first name, last name and a first career
\* entry with a company name.
NamesPerson(rd) ==
    /\ rd.shape = "dict" /\ rd.firstname # "" /\ rd.lastname # ""
    /\ rd.careers_info = "list" /\ rd.career0 = "dict" /\ rd.company_name # ""

\* The orchestrator is past line 405, the wave-2 article submission.
PastArticles == pc \in {"w2_articles_poll", "w2_twitter", "w2_twitter_poll", "w2_instagram",
                        "w2_instagram_poll", "returned", "raised"}

\* C13: with neither name nor company from the caller and an enrichment
\* payload with firstname F, lastname L and first company C, wave 2 posts an
\* article search with name "F L" and company C.
C13_DerivedArticleSearch ==
    (/\ caller_input.name = "" /\ caller_input.company = ""
     /\ PastArticles
     /\ Truthy(results.enrichment)
     /\ NamesPerson(results.enrichment.result)) =>
        LET rd == results.enrichment.result
        IN  \E i \in 1..Len(sent["articles"]) :
                /\ sent["articles"][i].wave = 2
                /\ sent["articles"][i].args = <<rd.firstname \o " " \o rd.lastname,
                                                rd.company_name>>

C13_Witness ==
    /\ caller_input.name = "" /\ caller_input.company = ""
    /\ Len(sent["articles"]) = 1
    /\ sent["articles"][1].wave = 2
    /\ sent["articles"][1].args = <<"Jane Doe", "Acme">>
    /\ pc = "returned"

\* Wave 2 has posted an article search for the current name and company and,
\* when the provider accepted it, poll_result was called for its id.
Wave2ArticleSearch ==
    \E i \in 1..Len(sent["articles"]) :
        /\ sent["articles"][i].wave = 2
        /\ sent["articles"][i].args = <<input_data.name, input_data.company>>
        /\ sent["articles"][i].accepted # "" =>
              /\ polls["articles"].request_id = sent["articles"][i].accepted
              /\ pc # "w2_articles_poll" => polls["articles"].st = "done"

\* C14 as stated: no article job in wave 1 and name and company known after
\* derivation give a wave-2 article search, whatever the enrichment job's
\* outcome.
C14_ArticlesWhateverEnrichment ==
    (/\ pc = "returned" /\ ~CredentialsMissing
     /\ ~Wave1("articles")
     /\ input_data.name # "" /\ input_data.company # "") => Wave2ArticleSearch

\* C14 amended: the same, provided the enrichment job completed with a
\* payload (phase 3 runs only then).
C14_ArticlesAfterEnrichment ==
    (/\ PastArticles
     /\ Truthy(results.enrichment)
     /\ ~Wave1("articles")
     /\ input_data.name # "" /\ input_data.company # "") => Wave2ArticleSearch

C14_Witness ==
    /\ pc = "returned"
    /\ caller_input.name # "" /\ caller_input.company # ""
    /\ Len(sent["articles"]) = 2
    /\ sent["articles"][1].accepted = ""
    /\ sent["articles"][2].wave = 2
    /\ Truthy(results.articles)

Networks == {"following_twitter", "following_instagram"}

\* The URL the caller supplied for the network of key k.
CallerUrl(k) ==
    IF k = "following_twitter" THEN caller_input.twitter_url ELSE caller_input.instagram_url

\* C15: a wave-2 following submission is made only for a network whose URL
\* the caller did not supply.
C15_NoDiscoveryWhenUrlSupplied ==
    \A k \in Networks :
        \A i \in 1..Len(sent[k]) : sent[k][i].wave = 2 => CallerUrl(k) = ""

\* The URL of the network of key k in an enrichment result, "" when the
\* result does not hold one.
UrlInPayload(k, rd) ==
    IF rd.shape # "dict" \/ rd.social_profiles # "dict" THEN ""
    ELSE IF k = "following_twitter"
         THEN (IF rd.twitter = "dict" THEN rd.twitter_url ELSE "")
         ELSE (IF rd.instagram = "dict" THEN rd.instagram_url ELSE "")

\* C16: once a run with an enrichment payload has ended, a wave-2 following
\* job was attempted for a network exactly when that network got no handle
\* in wave 1 and the payload holds its URL: nothing about the other network
\* enters the decision.
C16_DiscoveryPerNetwork ==
    (pc \in {"returned", "raised"} /\ Truthy(results.enrichment)) =>
        \A k \in Networks :
            (\E i \in 1..Len(sent[k]) : sent[k][i].wave = 2)
                <=> (~Wave1(k) /\ UrlInPayload(k, results.enrichment.result) # "")

\* The call ended because the ceiling was reached.
EndedAtCeiling ==
    /\ call.st = "done" /\ call.max_attempts >= 1 /\ Len(log) = call.max_attempts
    /\ LET last == log[Len(log)]
       IN  TransportError(last)
             \/ (~last.exc /\ last.success /\ StatusOf(last) \notin {"completed", "failed"})

\* What poll_result returns when the provider reports failure (lines 260, 268).
FailedOutcome == NonePayload

Batched == gpc \in {"dispatch", "analyze", "synthesize", "returned"} /\ llm_name # ""

\* generate_dossier is past line 844 with a backend chosen.
Reassembled == gpc \in {"synthesize", "returned"} /\ llm_name # ""

RECURSIVE Flatten(_)
Flatten(seqs) == IF seqs = <<>> THEN <<>> ELSE Head(seqs) \o Flatten(Tail(seqs))

\* ceil(n / w) for w > 0.
CeilDiv(n, w) == (n + w - 1) \div w

\* C18: the merged list of N entries is cut into ceil(N/W) windows, each of W
\* entries except the last, which has N - W*(ceil(N/W) - 1); the windows
\* concatenated in index order are the merged list; N = 0 gives no batch.
C18_BatchesAreContiguousWindows ==
    Batched =>
        LET N == Len(all_following)
            W == batch_size
            B == CeilDiv(N, W)
        IN  /\ all_following = merge_following(dossier_results)
            /\ Len(batches) = B
            /\ \A i \in 1..Len(batches) :
                  Len(batches[i]) = IF i < B THEN W ELSE N - W * (B - 1)
            /\ Flatten(batches) = all_following
            /\ N = 0 => batches = <<>>

C18_Witness ==
    /\ Batched
    /\ Len(all_following) = 2 * batch_size + 1
    /\ Len(batches) = 3
    /\ Len(batches[3]) = 1
    /\ dossier_results.following_twitter # <<>>
    /\ dossier_results.following_instagram # <<>>

\* The batch (0-based) whose generation call returned this text.
BatchOf(text) == CHOOSE i \in 0..(Len(futures) - 1) : futures[i + 1].analysis = text

\* C19: whatever the completion order, the analyses handed to synthesis are
\* what the batches' calls returned, in strictly ascending batch index.
C19_AnalysesInBatchOrder ==
    Reassembled =>
        /\ \A a \in 1..Len(following_analyses) :
              \E i \in 0..(Len(futures) - 1) :
                  futures[i + 1].analysis = following_analyses[a]
        /\ \A a, b \in 1..Len(following_analyses) :
              a < b => BatchOf(following_analyses[a]) < BatchOf(following_analyses[b])

C19_Witness ==
    /\ gpc = "returned"
    /\ completion_order = <<2, 0, 1>>
    /\ following_analyses = <<AnalysisText(0), AnalysisText(1), AnalysisText(2)>>

\* The batches (0-based) whose generation call produced output.
Succeeded == {i \in 0..(Len(futures) - 1) : futures[i + 1].analysis # ""}

\* C20: a batch whose call produced no output is dropped and nothing else
\* changes: the analyses hold exactly one entry per batch that produced
\* output and none for the others, every batch's call was made and joined,
\* and the synthesis call is made once.
C20_FailedBatchDropped ==
    /\ Reassembled =>
          /\ Len(following_analyses) = Cardinality(Succeeded)
          /\ \A i \in Succeeded :
                Cardinality({a \in 1..Len(following_analyses) :
                                following_analyses[a] = futures[i + 1].analysis}) = 1
          /\ \A a \in 1..Len(following_analyses) : following_analyses[a] # ""
          /\ \A i \in 0..(Len(batches) - 1) :
                /\ futures[i + 1].st = "joined"
                /\ Cardinality({c \in 1..Len(llm_calls) :
                                   llm_calls[c].kind = "batch" /\ llm_calls[c].idx = i}) = 1
    /\ (gpc = "returned" /\ llm_name # "") =>
          Cardinality({c \in 1..Len(llm_calls) : llm_calls[c].kind = "synthesis"}) = 1

C20_Witness ==
    /\ gpc = "returned"
    /\ Len(batches) = 3
    /\ Succeeded = {0, 2}
    /\ following_analyses = <<AnalysisText(0), AnalysisText(2)>>
    /\ llm_calls[Len(llm_calls)].kind = "synthesis"

\* ------------------------------------------------------------------ properties, C21-C29

\* _get_llm_caller finds a backend for this call of generate_dossier.
BackendAvailable == _get_llm_caller(llm, api_keys) # ""

\* The positions in llm_calls of the calls of this kind for this index.
CallsOf(kind, idx) ==
    {c \in 1..Len(llm_calls) : llm_calls[c].kind = kind /\ llm_calls[c].idx = idx}

\* C21: a call of generate_dossier with a backend available ends having
\* issued exactly one generation call per batch and exactly one synthesis
\* call (the synthesis call only, for an empty following list), the
\* synthesis call starting after every batch call has returned; with no
\* backend it issues no call and returns nothing.
C21_OneCallPerBatchPlusSynthesis ==
    /\ (gpc \in {"returned", "raised"} /\ BackendAvailable) =>
          /\ \A i \in 0..(Len(batches) - 1) : Cardinality(CallsOf("batch", i)) = 1
          /\ Cardinality(CallsOf("synthesis", -1)) = 1
          /\ Len(llm_calls) = Len(batches) + 1
          /\ Len(all_following) = 0 => Len(llm_calls) = 1
    /\ CallsOf("synthesis", -1) # {} =>
          \A i \in 1..Len(futures) : futures[i].st \in {"done", "joined"}
    /\ (gpc # "idle" /\ ~BackendAvailable) =>
          /\ llm_calls = <<>>
          /\ gpc = "returned" => dossier = ""

\* The synthesis prompt of this call has been built.
PromptBuilt == gpc = "returned" /\ llm_name # ""

\* C22 as stated: with an empty analysis sequence the following-analyses
\* section is exactly the string "no following data analyzed".
C22_SentinelAsQuoted ==
    (PromptBuilt /\ following_analyses = <<>>) =>
        synthesis_prompt.following_analyses = "no following data analyzed"

\* C22 amended: each section is its sentinel exactly when its source is
\* empty, the sentinels being "No enrichment data", "No following data
\* analyzed" and "No articles found"; a non-empty analysis sequence is
\* joined with the separator.
C22_SentinelsExactlyWhenEmpty ==
    PromptBuilt =>
        /\ synthesis_prompt.following_analyses = "No following data analyzed"
              <=> following_analyses = <<>>
        /\ following_analyses # <<>> =>
              synthesis_prompt.following_analyses = join(following_analyses)
        /\ synthesis_prompt.enrichment_data = "No enrichment data"
              <=> dossier_results.enrichment = "none"
        /\ synthesis_prompt.articles_data = "No articles found"
              <=> ~dossier_results.articles

C22_Witness ==
    /\ PromptBuilt
    /\ Len(batches) >= 2
    /\ following_analyses = <<>>
    /\ synthesis_prompt = [enrichment_data |-> "No enrichment data",
                           following_analyses |-> "No following data analyzed",
                           articles_data |-> "No articles found"]

\* The backends a synthesis call was sent to.
TriedForSynthesis ==
    {llm_calls[c].backend : c \in CallsOf("synthesis", -1)}

\* C23: in "auto" mode the backends are tried in order until one succeeds:
\* a call of generate_dossier that returns nothing has tried every
\* configured backend, so a failing earlier backend never hides a later one.
C23_AutoTriesEveryConfiguredBackend ==
    (llm = "auto" /\ gpc = "returned" /\ dossier = "") =>
        \A b \in api_keys : b \in TriedForSynthesis

\* C24: every change of the accumulator is a step of the orchestrator's own
\* thread that stores the result of an ended poll: no poll moves in that
\* step, exactly that slot is assigned, and inside the pool the slot's
\* future is the one the as_completed loop has just yielded.
C24_OnlyOrchestratorWrites ==
    [][results' # results =>
          /\ polls' = polls
          /\ \E k \in Keys :
                /\ polls[k].st = "done"
                /\ results' = [results EXCEPT ![k] = polls[k].result]
                /\ pc = "pool" => (k \notin joined /\ joined' = joined \cup {k})
                /\ pc # "pool" => pc' # pc]_vars

C24_Witness ==
    /\ pc = "pool"
    /\ \E k, j \in Keys :
          /\ k \in joined /\ Truthy(results[k]) /\ writes[k] = 1
          /\ polls[j].st = "running" /\ polls[j].attempts >= 1

\* The keys whose poll_result call is in progress.
PollsInProgress == {k \in Keys : polls[k].st = "running"}

\* C25: at most poll_workers wave-1 polls are in progress inside the pool
\* and at most max_workers batch generation calls are in progress, whatever
\* the number of batches; outside the pool at most one poll is in progress,
\* and outside the batch fan-out no batch call is.
C25_FanOutBounded ==
    /\ Cardinality(PollsInProgress) <= (IF pc = "pool" THEN poll_workers ELSE 1)
    /\ Cardinality({k \in Keys : Wave1(k)}) <= poll_workers
    /\ Cardinality(InState(futures, "running")) <= max_workers
    /\ gpc # "analyze" => InState(futures, "running") = {}
    /\ gpc # "idle" => PollsInProgress = {}

C25_Witness ==
    /\ gpc = "analyze"
    /\ Len(batches) > max_workers
    /\ Cardinality(InState(futures, "running")) = max_workers
    /\ InState(futures, "queued") # {}

\* A wave-2 submission was made for key k.
Wave2Sent(k) == \E i \in 1..Len(sent[k]) : sent[k][i].wave = 2

\* The step of wave 2 after the job of this poll position.
AfterWave2Poll(p) ==
    CASE p = "w2_articles_poll" -> "w2_twitter"
      [] p = "w2_twitter_poll" -> "w2_instagram"
      [] p = "w2_instagram_poll" -> "returned"

Wave2Polling == {"w2_articles_poll", "w2_twitter_poll", "w2_instagram_poll"}

\* No wave-2 job is submitted while a poll is in progress, and the jobs are
\* submitted in the order articles, twitter, instagram.
Wave2InOrder ==
    \A k \in Keys :
        (Wave2Sent(k)' /\ ~Wave2Sent(k)) =>
            /\ PollsInProgress = {}
            /\ k = "articles" =>
                  ~Wave2Sent("following_twitter") /\ ~Wave2Sent("following_instagram")
            /\ k = "following_twitter" => ~Wave2Sent("following_instagram")
            /\ k = "enrichment" => FALSE

\* The poll position of the wave-2 job of key k.
PollingOf(k) ==
    CASE k = "articles" -> "w2_articles_poll"
      [] k = "following_twitter" -> "w2_twitter_poll"
      [] k = "following_instagram" -> "w2_instagram_poll"

\* A wave-2 job that ends, with or without data, is followed by the next
\* step of wave 2; so is a wave-2 submission that yields no handle, and one
\* that yields a handle is followed by the poll of that handle.
Wave2GoesOn ==
    /\ (pc \in Wave2Polling /\ pc' # pc) => pc' = AfterWave2Poll(pc)
    /\ \A k \in Keys \ {"enrichment"} :
          (Wave2Sent(k)' /\ ~Wave2Sent(k)) =>
              LET accepted == sent'[k][Len(sent'[k])].accepted
              IN  IF accepted # ""
                  THEN /\ pc' = PollingOf(k)
                       /\ polls'[k].st = "running"
                       /\ polls'[k].request_id = accepted
                  ELSE pc' = AfterWave2Poll(PollingOf(k))

\* C26: wave 2 is sequential: past the pool at most one poll is in progress,
\* the wave-2 jobs are submitted in the order articles, twitter, instagram,
\* each after every earlier poll has ended, and the end of a wave-2 job,
\* whatever its outcome, leads to the next step of wave 2.
C26_Wave2Sequential ==
    /\ [](PastPool => Cardinality(PollsInProgress) <= 1)
    /\ [][Wave2InOrder /\ Wave2GoesOn]_vars

C26_Witness ==
    /\ pc = "returned"
    /\ Wave2Sent("articles") /\ ~Truthy(results.articles)
    /\ Wave2Sent("following_twitter") /\ ~Truthy(results.following_twitter)
    /\ polls["following_twitter"].request_id # ""
    /\ Wave2Sent("following_instagram") /\ Truthy(results.following_instagram)

\* The handles the provider gave for key k, in order.
Handles(k) == {i \in 1..Len(sent[k]) : sent[k][i].accepted # ""}

\* C27: a slot gets at most one handle in a run and only that handle is
\* polled: a slot with a wave-1 handle is not submitted in wave 2, a second
\* submission for a slot follows a wave-1 submission without handle, and a
\* poll once started for a slot is never replaced by a poll of another handle.
C27_OneHandlePerSlot ==
    /\ [](\A k \in Keys :
             /\ Cardinality(Handles(k)) <= 1
             /\ Wave1(k) => ~Wave2Sent(k)
             /\ Len(sent[k]) <= 2
             /\ Len(sent[k]) = 2 =>
                   /\ sent[k][1].wave = 1 /\ sent[k][1].accepted = ""
                   /\ sent[k][2].wave = 2
             /\ polls[k].st # "idle" =>
                   \E i \in Handles(k) : sent[k][i].accepted = polls[k].request_id)
    /\ [][\A k \in Keys :
             polls[k].st # "idle" => polls'[k].request_id = polls[k].request_id]_vars

C27_Witness ==
    /\ pc = "returned"
    /\ Wave1("following_twitter")
    /\ polls["following_twitter"].st = "done"
    /\ ~Truthy(results.following_twitter)
    /\ UrlInPayload("following_twitter", result_data_of(results.enrichment)) # ""
    /\ Len(sent["following_twitter"]) = 1
    /\ Len(sent["following_instagram"]) = 2
    /\ Cardinality(Handles("following_instagram")) = 1

\* C28: deep_research leaves email, linkedin_url, twitter_url and
\* instagram_url of the caller's ResearchInput as they were, and changes name
\* (resp. company) only when it was empty on entry and the enrichment slot
\* holds a completed payload; a value the caller supplied is never replaced.
C28_InputOnlyCompleted ==
    /\ input_data.email = caller_input.email
    /\ input_data.linkedin_url = caller_input.linkedin_url
    /\ input_data.twitter_url = caller_input.twitter_url
    /\ input_data.instagram_url = caller_input.instagram_url
    /\ input_data.name # caller_input.name =>
          caller_input.name = "" /\ Truthy(results.enrichment)
    /\ input_data.company # caller_input.company =>
          caller_input.company = "" /\ Truthy(results.enrichment)

C28_Witness ==
    /\ pc = "returned"
    /\ caller_input.name = "Ann Lee" /\ caller_input.company = ""
    /\ caller_input.twitter_url # ""
    /\ input_data.name = "Ann Lee" /\ input_data.company = "Acme"
    /\ result_data_of(results.enrichment).firstname = "Jane"

\* C29: the wave-1 jobs never outnumber the pool's workers, so no poll ever
\* waits in the pool's queue: inside the pool every job with a handle has
\* its poll started, and a poll in progress can make its next status check
\* whatever the other polls are doing.
C29_NoPollWaitsForAnother ==
    /\ Cardinality({k \in Keys : Wave1(k)}) <= poll_workers
    /\ \A k \in Keys : polls[k].st # "queued"
    /\ pc = "pool" =>
          \A k \in Keys :
              /\ Wave1(k) => polls[k].st \in {"running", "done"}
              /\ polls[k].st = "running" => ENABLED PollAttempt(k)

C29_Witness ==
    /\ pc = "pool"
    /\ \A k \in Keys : Wave1(k)
    /\ polls["enrichment"].st = "running"
    /\ polls["enrichment"].attempts = DefaultMaxAttempts - 1
    /\ polls["following_twitter"].st = "done" /\ ~Truthy(polls["following_twitter"].result)
    /\ polls["articles"].st = "running" /\ polls["articles"].attempts = 0

====
